---- MODULE Spec2Model ----
(***************************************************************************)
(* Fullscreen detection of xidlehook-core (modules/xcb.rs).                *)
(*                                                                         *)
(* The X server is the environment: the reply to every round trip (the     *)
(* child list of query_tree, the value of each get_property) is an input   *)
(* chosen when the request is issued, and every round trip may fail.       *)
(* A window is named by its path below a screen: <<s>> is the root of      *)
(* screen s and w \o <<i>> is the i-th child in the listing order of w.    *)
(* Strings are sequences of bytes, compared and split bytewise.  The value  *)
(* of an atom or cardinal property is the sequence of its 32-bit words.    *)
(* Option<T> is a sequence of length 0 (None) or 1 (Some).                 *)
(***************************************************************************)
EXTENDS Integers, Sequences, FiniteSets, TLC

VARIABLES
    module,    \* NotWhenFullscreen: exceptions_wm_class1/2, exceptions_wm_name
    args,      \* the three exception parameters of the running get_fullscreen
    pc,        \* position of the running pre_timer call
    screen,    \* index of the screen get_fullscreen is iterating over
    stack,     \* activation records of query_fullscreen, outermost first
    snap,      \* the five property values of the window under test
    qret,      \* value returned by the outermost query_fullscreen
    ret,       \* value returned by get_fullscreen
    progress,  \* value returned by pre_timer
    lastReq,   \* history: the round trip issued last in this call
    failed,    \* history: a round trip of this call failed
    seen,      \* history: a window tested in this call is fullscreen on the
               \* desktop that is active on the root of its screen
    bytes,     \* input of the WM_CLASS decoding
    decoded    \* result of the WM_CLASS decoding, None before it ran

vars == <<module, args, pc, screen, stack, snap, qret, ret, progress,
          lastReq, failed, seen, bytes, decoded>>

detectVars == <<module, args, pc, screen, stack, snap, qret, ret, progress,
                lastReq, failed, seen>>

----------------------------------------------------------------------------
(* Bounds *)

NumScreens == 2
MaxFanout == 2
MaxDepth == 2
MaxLen == 4

----------------------------------------------------------------------------
(* Values *)

None == <<>>

Some(x) == <<x>>

NUL == 0

WithdrawnState == 0

atom_net_wm_state_fullscreen == "_NET_WM_STATE_FULLSCREEN"

AtomOther == "_NET_WM_STATE_ABOVE"

ActiveDesktopReplies == {<<>>, <<1>>}

NetWmStateReplies == {<<AtomOther>>, <<AtomOther, atom_net_wm_state_fullscreen>>}

WmStateReplies == {<<>>, <<0, 0>>, <<1, 0>>}

WmDesktopReplies == {<<>>, <<1>>, <<2>>}

WmNameReplies == {<<118>>, <<119>>}

WmClassReplies == {<<97, 0, 98, 0>>, <<97, 98>>}

ClassLists == {None, Some(<< <<97>> >>), Some(<< <<98>> >>)}

NameLists == {None, Some(<<>>), Some(<< <<118>> >>)}

FilterConfigs == [class1 : ClassLists, class2 : ClassLists, name : NameLists]

ClassBytes == {NUL, 97, 98, 255}

RECURSIVE SeqsUpTo(_, _)
SeqsUpTo(S, n) ==
    IF n = 0 THEN {<<>>}
    ELSE LET shorter == SeqsUpTo(S, n - 1)
         IN  shorter \cup {Append(s, x) : s \in {t \in shorter : Len(t) = n - 1}, x \in S}

EmptySnap == [state |-> <<>>, wm |-> <<>>, desktop |-> <<>>, name |-> <<>>, class |-> <<>>]

NoReq == [kind |-> "none", win |-> <<>>]

----------------------------------------------------------------------------
(* Decoding and the fullscreen test *)

Contains(list, x) == \E k \in 1..Len(list) : list[k] = x

\* rsplit_once in place of split_once.
LastNul(b) ==
    IF \E k \in 1..Len(b) : b[k] = NUL
    THEN CHOOSE k \in 1..Len(b) : b[k] = NUL /\ \A j \in (k + 1)..Len(b) : b[j] # NUL
    ELSE 0

FirstNul(b) ==
    IF \E k \in 1..Len(b) : b[k] = NUL
    THEN CHOOSE k \in 1..Len(b) : b[k] = NUL /\ \A j \in 1..(k - 1) : b[j] # NUL
    ELSE 0

StripSuffixNul(s) ==
    IF Len(s) > 0 /\ s[Len(s)] = NUL THEN SubSeq(s, 1, Len(s) - 1) ELSE s

DecodeWmClass(b) ==
    IF FirstNul(b) = 0
    THEN << <<>>, <<>> >>
    ELSE << SubSeq(b, 1, FirstNul(b) - 1),
            StripSuffixNul(SubSeq(b, FirstNul(b) + 1, Len(b))) >>

HasFullscreenAtom(v) == \E k \in 1..Len(v) : v[k] = atom_net_wm_state_fullscreen

NotWithdrawn(v) == IF Len(v) > 0 THEN v[1] # WithdrawnState ELSE FALSE

\* The comparison of the two first values left out.
OnActiveDesktopAny(desktop, active) == Len(desktop) > 0 /\ Len(active) > 0

OnActiveDesktop(desktop, active) ==
    Len(desktop) > 0 /\ Len(active) > 0 /\ desktop[1] = active[1]

\* The negation of contains left out.
NotExceptedNegationLost(list, s) == IF list = None THEN TRUE ELSE Contains(list[1], s)

NotExcepted(list, s) == IF list = None THEN TRUE ELSE ~Contains(list[1], s)

StateAndDesktop(s, active) ==
    /\ HasFullscreenAtom(s.state)
    /\ NotWithdrawn(s.wm)
    /\ OnActiveDesktop(s.desktop, active)

\* The two components compared with the wrong lists.
ClassAllowedSwapped(class, ex) ==
    /\ NotExcepted(ex.class1, DecodeWmClass(class)[2])
    /\ NotExcepted(ex.class2, DecodeWmClass(class)[1])

ClassAllowed(class, ex) ==
    /\ NotExcepted(ex.class1, DecodeWmClass(class)[1])
    /\ NotExcepted(ex.class2, DecodeWmClass(class)[2])

IsFullscreen(s, active, ex) ==
    /\ StateAndDesktop(s, active)
    /\ NotExcepted(ex.name, s.name)
    /\ ClassAllowed(s.class, ex)

----------------------------------------------------------------------------
(* Activation records *)

NewFrame(w, ex, exempt) ==
    [win |-> w, n |-> 0, i |-> 0, ad |-> <<>>, ex |-> ex, exempt |-> exempt]

Top == stack[Len(stack)]

Child == Top.win \o <<Top.i>>

SetTop(stk, f) == [stk EXCEPT ![Len(stk)] = f]

ChildCounts(w) == IF Len(w) <= MaxDepth THEN 0..MaxFanout ELSE {0}

\* The activation on top of stk has run out of children and returns
\* Ok(false): its caller moves to its next child or returns Ok(false) too.
RECURSIVE Unwind(_)
Unwind(stk) ==
    IF Len(stk) = 1
    THEN [stack |-> stk, pc |-> "ret", qret |-> "false"]
    ELSE LET rest == SubSeq(stk, 1, Len(stk) - 1)
             p == rest[Len(rest)]
         IN  IF p.i < p.n
             THEN [stack |-> SetTop(rest, [p EXCEPT !.i = p.i + 1]),
                   pc |-> "p1", qret |-> "none"]
             ELSE Unwind(rest)

\* The result of the recursive call dropped by the caller.
EvalOutcomeNestedIgnored(stk, child, matched, exempt) ==
    IF matched /\ Len(stk) = 1
    THEN [stack |-> stk, pc |-> "ret", qret |-> "true"]
    ELSE IF matched
         THEN Unwind(stk)
         ELSE [stack |-> Append(stk, NewFrame(child, stk[Len(stk)].ex, exempt)),
               pc |-> "tree", qret |-> "none"]

\* The children of an excepted window skipped.
EvalOutcomeSkipExempt(stk, child, matched, exempt) ==
    IF matched
    THEN [stack |-> stk, pc |-> "ret", qret |-> "true"]
    ELSE IF exempt
         THEN Unwind(Append(stk, NewFrame(child, stk[Len(stk)].ex, exempt)))
         ELSE [stack |-> Append(stk, NewFrame(child, stk[Len(stk)].ex, exempt)),
               pc |-> "tree", qret |-> "none"]

\* What follows the test of the child of the top activation.
EvalOutcome(stk, child, matched, exempt) ==
    IF matched
    THEN [stack |-> stk, pc |-> "ret", qret |-> "true"]
    ELSE [stack |-> Append(stk, NewFrame(child, stk[Len(stk)].ex, exempt)),
          pc |-> "tree", qret |-> "none"]

\* The two class lists passed in the wrong order.
CallArgsSwapped(m) == [class1 |-> m.class2, class2 |-> m.class1, name |-> m.name]

CallArgs(m) == [class1 |-> m.class1, class2 |-> m.class2, name |-> m.name]

\* A failed round trip read as "not fullscreen".
ErrResultCoerced == "false"

ErrResult == "err"

ProgressOf(r) ==
    IF r = "err" THEN "Err" ELSE IF r = "true" THEN "Abort" ELSE "Continue"

----------------------------------------------------------------------------
(* Initial states *)

Init ==
    /\ module \in FilterConfigs
    /\ args = CallArgs(module)
    /\ pc = "idle"
    /\ screen = 1
    /\ stack = <<>>
    /\ snap = EmptySnap
    /\ qret = "none"
    /\ ret = "none"
    /\ progress = "none"
    /\ lastReq = NoReq
    /\ failed = FALSE
    /\ seen = FALSE
    /\ bytes = <<>>
    /\ decoded = None

----------------------------------------------------------------------------
(* pre_timer, get_fullscreen and query_fullscreen *)

\* A round trip fails: the error leaves query_fullscreen, get_fullscreen and
\* pre_timer through the ? operators and Result::map.
Fail(kind, w) ==
    /\ lastReq' = [kind |-> kind, win |-> w]
    /\ failed' = TRUE
    /\ pc' = "done"
    /\ ret' = ErrResult
    /\ progress' = ProgressOf(ErrResult)
    /\ stack' = <<>>
    /\ snap' = EmptySnap
    /\ UNCHANGED <<module, args, screen, qret, seen, bytes, decoded>>

\* The scheduler starts a timer cycle: pre_timer calls get_fullscreen, which
\* calls query_fullscreen on the root of the first screen.
PreTimer ==
    /\ pc \in {"idle", "done"}
    /\ args' = CallArgs(module)
    /\ screen' = 1
    /\ stack' = <<NewFrame(<<1>>, args', FALSE)>>
    /\ pc' = "tree"
    /\ snap' = EmptySnap
    /\ qret' = "none"
    /\ ret' = "none"
    /\ progress' = "none"
    /\ lastReq' = NoReq
    /\ failed' = FALSE
    /\ seen' = FALSE
    /\ UNCHANGED <<module, bytes, decoded>>

QueryTree ==
    /\ pc = "tree"
    /\ \/ \E n \in ChildCounts(Top.win) :
              /\ stack' = SetTop(stack, [Top EXCEPT !.n = n])
              /\ pc' = "desk"
              /\ lastReq' = [kind |-> "tree", win |-> Top.win]
              /\ UNCHANGED <<module, args, screen, snap, qret, ret, progress,
                             failed, seen, bytes, decoded>>
       \/ Fail("tree", Top.win)

GetActiveDesktop ==
    /\ pc = "desk"
    /\ \/ \E ad \in ActiveDesktopReplies :
              LET f == [Top EXCEPT !.ad = ad]
                  next == IF f.n = 0
                          THEN Unwind(SetTop(stack, f))
                          ELSE [stack |-> SetTop(stack, [f EXCEPT !.i = 1]),
                                pc |-> "p1", qret |-> "none"]
              IN  /\ stack' = next.stack
                  /\ pc' = next.pc
                  /\ qret' = next.qret
                  /\ lastReq' = [kind |-> "_NET_CURRENT_DESKTOP", win |-> Top.win]
                  /\ UNCHANGED <<module, args, screen, snap, ret, progress,
                                 failed, seen, bytes, decoded>>
       \/ Fail("_NET_CURRENT_DESKTOP", Top.win)

\* One get_property round trip on the child under test.
GetProperty(at, kind, next, replies, field) ==
    /\ pc = at
    /\ \/ \E v \in replies :
              /\ snap' = [(IF at = "p1" THEN EmptySnap ELSE snap) EXCEPT ![field] = v]
              /\ pc' = next
              /\ lastReq' = [kind |-> kind, win |-> Child]
              /\ UNCHANGED <<module, args, screen, stack, qret, ret, progress,
                             failed, seen, bytes, decoded>>
       \/ Fail(kind, Child)

GetNetWmState == GetProperty("p1", "_NET_WM_STATE", "p2", NetWmStateReplies, "state")

GetWmState == GetProperty("p2", "WM_STATE", "p3", WmStateReplies, "wm")

GetWmDesktop == GetProperty("p3", "_NET_WM_DESKTOP", "p4", WmDesktopReplies, "desktop")

GetWmName == GetProperty("p4", "WM_NAME", "p5", WmNameReplies, "name")

GetWmClass == GetProperty("p5", "WM_CLASS", "eval", WmClassReplies, "class")

\* The test of the child under test, and the return or the recursion.
Evaluate ==
    /\ pc = "eval"
    /\ LET matched == IsFullscreen(snap, Top.ad, Top.ex)
           exempt == StateAndDesktop(snap, Top.ad) /\ ~matched
           next == EvalOutcome(stack, Child, matched, exempt)
       IN  /\ stack' = next.stack
           /\ pc' = next.pc
           /\ qret' = next.qret
    /\ seen' = (seen \/ (/\ StateAndDesktop(snap, stack[1].ad)
                         /\ NotExcepted(Top.ex.name, snap.name)
                         /\ ClassAllowed(snap.class, Top.ex)))
    /\ UNCHANGED <<module, args, screen, snap, ret, progress, lastReq, failed,
                   bytes, decoded>>

\* get_fullscreen: the query of one screen returned.
ScreenMatched ==
    /\ pc = "ret"
    /\ qret = "true"
    /\ ret' = "true"
    /\ progress' = ProgressOf("true")
    /\ pc' = "done"
    /\ UNCHANGED <<module, args, screen, stack, snap, qret, lastReq, failed,
                   seen, bytes, decoded>>

NextScreen ==
    /\ pc = "ret"
    /\ qret = "false"
    /\ screen < NumScreens
    /\ screen' = screen + 1
    /\ stack' = <<NewFrame(<<screen + 1>>, args, FALSE)>>
    /\ qret' = "none"
    /\ pc' = "tree"
    /\ UNCHANGED <<module, args, snap, ret, progress, lastReq, failed, seen,
                   bytes, decoded>>

NoScreenMatched ==
    /\ pc = "ret"
    /\ qret = "false"
    /\ screen = NumScreens
    /\ ret' = "false"
    /\ progress' = ProgressOf("false")
    /\ pc' = "done"
    /\ UNCHANGED <<module, args, screen, stack, snap, qret, lastReq, failed,
                   seen, bytes, decoded>>

Next ==
    \/ PreTimer
    \/ QueryTree
    \/ GetActiveDesktop
    \/ GetNetWmState
    \/ GetWmState
    \/ GetWmDesktop
    \/ GetWmName
    \/ GetWmClass
    \/ Evaluate
    \/ ScreenMatched
    \/ NextScreen
    \/ NoScreenMatched

Spec == Init /\ [][Next]_vars

----------------------------------------------------------------------------
(* WM_CLASS decoding on its own *)

InitClass ==
    /\ module = [class1 |-> None, class2 |-> None, name |-> None]
    /\ args = CallArgs(module)
    /\ pc = "idle"
    /\ screen = 1
    /\ stack = <<>>
    /\ snap = EmptySnap
    /\ qret = "none"
    /\ ret = "none"
    /\ progress = "none"
    /\ lastReq = NoReq
    /\ failed = FALSE
    /\ seen = FALSE
    /\ bytes \in SeqsUpTo(ClassBytes, MaxLen)
    /\ decoded = None

Decode ==
    /\ decoded = None
    /\ decoded' = Some(DecodeWmClass(bytes))
    /\ UNCHANGED <<detectVars, bytes>>

NextClass == Decode

SpecClass == InitClass /\ [][NextClass]_vars

----------------------------------------------------------------------------
(* Vocabulary of the properties, stated on the raw property values *)

Tested == Top.win \o <<Top.i>>

InList(list, x) == list # None /\ \E k \in 1..Len(list[1]) : list[1][k] = x

FullscreenOnDesktop(s, active) ==
    /\ \E k \in 1..Len(s.state) : s.state[k] = "_NET_WM_STATE_FULLSCREEN"
    /\ Len(s.wm) >= 1
    /\ s.wm[1] # 0
    /\ Len(s.desktop) >= 1
    /\ Len(active) >= 1
    /\ s.desktop[1] = active[1]

Excepted(s, ex) ==
    \/ InList(ex.name, s.name)
    \/ InList(ex.class1, DecodeWmClass(s.class)[1])
    \/ InList(ex.class2, DecodeWmClass(s.class)[2])

Satisfies(s, active, ex) == FullscreenOnDesktop(s, active) /\ ~Excepted(s, ex)

PreOrderLE(a, b) ==
    \/ Len(a) <= Len(b) /\ SubSeq(b, 1, Len(a)) = a
    \/ \E k \in 1..Len(a) :
          /\ k <= Len(b)
          /\ \A j \in 1..(k - 1) : a[j] = b[j]
          /\ a[k] < b[k]

InCall == pc \notin {"idle", "done"}

----------------------------------------------------------------------------
(* C1 *)

\* C1: when no round trip fails, get_fullscreen returns true if and only if
\* some window below the root of some screen is fullscreen, not withdrawn,
\* on the desktop that is active on the root of its screen, and not excepted.
C1_TrueIffSomeWindowFullscreen ==
    (pc = "done" /\ ~failed) => (ret = "true" <=> seen)

----------------------------------------------------------------------------
(* C2 *)

\* C2: the traversal is depth-first, pre-order and first-match-wins: round
\* trips are issued in pre-order of the windows, a window that satisfies the
\* test ends the traversal with true and no round trip follows it, so the
\* last round trip of a call that returns true is the WM_CLASS read of the
\* matching window.
C2_PreOrderFirstMatch ==
    [][/\ (InCall /\ lastReq.kind # "none" /\ lastReq' # lastReq)
            => /\ PreOrderLE(lastReq.win, lastReq'.win)
               /\ pc # "ret"
       /\ (pc = "eval" /\ Satisfies(snap, Top.ad, Top.ex))
            => /\ pc' = "ret"
               /\ qret' = "true"
               /\ lastReq' = lastReq
       /\ (pc = "ret" /\ qret = "true")
            => /\ ret' = "true"
               /\ lastReq' = lastReq
               /\ lastReq = [kind |-> "WM_CLASS", win |-> Tested]
               /\ Satisfies(snap, Top.ad, Top.ex)
      ]_vars

\* A1, the first child of the first child A of the first root, matched,
\* while A's sibling B and the second screen were never asked about.
C2_Witness ==
    /\ ret = "true"
    /\ Tested = <<1, 1, 1>>
    /\ stack[1].n = 2
    /\ lastReq.win = <<1, 1, 1>>
    /\ NumScreens >= 2

----------------------------------------------------------------------------
(* C3 *)

\* C3: a failed round trip ends the call at once with an error, no round
\* trip follows it, and the call returns true or false only if every round
\* trip it issued succeeded.
C3_ErrorsPropagate ==
    /\ failed => (pc = "done" /\ ret = "err" /\ progress = "Err")
    /\ ret \in {"true", "false"} => ~failed
    /\ ret = "err" => failed

\* The WM_NAME read of a window at depth 2 failed.
C3_Witness ==
    /\ failed
    /\ ret = "err"
    /\ lastReq = [kind |-> "WM_NAME", win |-> <<1, 2, 1>>]

----------------------------------------------------------------------------
(* C4 *)

\* C4: a query_fullscreen that returns true because of window W read the
\* fullscreen atom in W's _NET_WM_STATE, a first WM_STATE word other than 0,
\* a non-empty _NET_WM_DESKTOP, a non-empty active desktop on the window
\* whose child list contains W, and equal first values of the two.
C4_TrueNeedsStateAndDesktop ==
    qret = "true" =>
        /\ \E k \in 1..Len(snap.state) : snap.state[k] = "_NET_WM_STATE_FULLSCREEN"
        /\ Len(snap.wm) >= 1
        /\ snap.wm[1] # 0
        /\ Len(snap.desktop) >= 1
        /\ Len(Top.ad) >= 1
        /\ snap.desktop[1] = Top.ad[1]

\* A window at depth 2 matched.
C4_Witness == ret = "true" /\ Len(stack) = 2 /\ snap.desktop = <<1>>

----------------------------------------------------------------------------
(* C5 *)

\* C5: a window whose title is in the supplied title-exception list never
\* makes the call return true; with no list, or an empty one, the title
\* exempts no window: the test then holds exactly when the state, desktop
\* and class conditions do.
C5_TitleException ==
    /\ (qret = "true" /\ args.name # None)
            => ~\E k \in 1..Len(args.name[1]) : args.name[1][k] = snap.name
    /\ (pc = "eval" /\ (Top.ex.name = None \/ Top.ex.name = Some(<<>>)))
            => (IsFullscreen(snap, Top.ad, Top.ex)
                   <=> /\ FullscreenOnDesktop(snap, Top.ad)
                       /\ ~InList(Top.ex.class1, DecodeWmClass(snap.class)[1])
                       /\ ~InList(Top.ex.class2, DecodeWmClass(snap.class)[2]))

\* A window that meets every state and desktop condition was passed over
\* because of its title, and the traversal went on below it.
C5_Witness ==
    /\ pc = "tree"
    /\ Len(stack) = 2
    /\ Top.exempt
    /\ args.name = Some(<< <<118>> >>)
    /\ snap.name = <<118>>
    /\ FullscreenOnDesktop(snap, stack[1].ad)

----------------------------------------------------------------------------
(* C6 *)

\* The query of a screen returned; the root of the screen has the single
\* child W, W is childless or matched, W meets the state and desktop
\* conditions, its WM_CLASS is "a\0b\0" and no title list is supplied.
C6_Case ==
    /\ pc = "ret"
    /\ Len(stack) = 1
    /\ stack[1].n = 1
    /\ lastReq.win = <<screen, 1>>
    /\ FullscreenOnDesktop(snap, stack[1].ad)
    /\ snap.class = <<97, 0, 98, 0>>
    /\ args.name = None

\* C6: the first class list is compared with the instance component only
\* and the second with the class component only.
C6_ClassLists ==
    C6_Case =>
        /\ (args.class1 = None /\ args.class2 = None) => qret = "true"
        /\ (InList(args.class1, <<97>>) \/ InList(args.class2, <<98>>))
                => qret = "false"
        /\ (~InList(args.class1, <<97>>) /\ ~InList(args.class2, <<98>>))
                => qret = "true"

\* The class component "b" is in the first list only, and W matched.
C6_Witness ==
    /\ C6_Case
    /\ args.class1 = Some(<< <<98>> >>)
    /\ qret = "true"

----------------------------------------------------------------------------
(* C7 *)

\* C7: pre_timer passes the three lists of the module to get_fullscreen,
\* returns Abort exactly for true, Continue exactly for false and an error
\* exactly for an error, never changes the module, and starts every cycle
\* from the same state.
C7_Gate ==
    [][/\ module' = module
       /\ pc' # "idle" =>
            /\ args'.class1 = module.class1
            /\ args'.class2 = module.class2
            /\ args'.name = module.name
       /\ pc' = "done" =>
            /\ ret' \in {"true", "false", "err"}
            /\ progress' = "Abort" <=> ret' = "true"
            /\ progress' = "Continue" <=> ret' = "false"
            /\ progress' = "Err" <=> ret' = "err"
       /\ (pc \in {"idle", "done"} /\ pc' # pc) =>
            /\ pc' = "tree"
            /\ screen' = 1
            /\ Len(stack') = 1
            /\ stack'[1].win = <<1>>
            /\ stack'[1].ex = args'
            /\ lastReq' = NoReq
            /\ ~failed'
            /\ ret' = "none"
            /\ progress' = "none"
      ]_vars

\* A cycle was aborted by a module built with a second class list.
C7_Witness ==
    /\ pc = "done"
    /\ progress = "Abort"
    /\ module.class2 = Some(<< <<97>> >>)
    /\ module.class1 = None

----------------------------------------------------------------------------
(* C8 *)

\* C8: WM_CLASS bytes with a null are split at the first null, and one
\* trailing null is removed from the second part; bytes without a null
\* decode to two empty strings.
C8_DecodeWmClass ==
    decoded # None =>
        LET inst == decoded[1][1]
            class == decoded[1][2]
        IN  IF \E k \in 1..Len(bytes) : bytes[k] = 0
            THEN /\ \A k \in 1..Len(inst) : inst[k] # 0
                 /\ \/ bytes = inst \o <<0>> \o class \o <<0>>
                    \/ /\ bytes = inst \o <<0>> \o class
                       /\ (class = <<>> \/ class[Len(class)] # 0)
            ELSE inst = <<>> /\ class = <<>>

\* "a\0b\0" decoded to ("a", "b").
C8_Witness ==
    /\ bytes = <<97, 0, 98, 0>>
    /\ decoded = Some(<< <<97>>, <<98>> >>)

----------------------------------------------------------------------------
(* C9 *)

\* C9: during a call _NET_CURRENT_DESKTOP is read from root windows only,
\* and every window is compared with the value read from the root of its
\* screen.
C9_ActiveDesktopFromRootOnly ==
    /\ lastReq.kind = "_NET_CURRENT_DESKTOP" => Len(lastReq.win) = 1
    /\ pc = "eval" => Top.ad = stack[1].ad

----------------------------------------------------------------------------
(* C10 *)

\* C10: after a window fails the test, excepted or not, the next round trip
\* is the tree query of that very window, made with the same three filters;
\* a match below it returns true at once, whatever was excepted above.
C10_RecursionBelowNonMatch ==
    [][/\ (pc = "eval" /\ ~Satisfies(snap, Top.ad, Top.ex))
            => /\ pc' = "tree"
               /\ Len(stack') = Len(stack) + 1
               /\ SubSeq(stack', 1, Len(stack)) = stack
               /\ stack'[Len(stack')].win = Tested
               /\ stack'[Len(stack')].ex = Top.ex
               /\ Top.ex = args
       /\ pc = "tree"
            => lastReq' = [kind |-> "tree", win |-> Top.win]
       /\ (pc = "eval" /\ Len(stack) >= 2 /\ Satisfies(snap, Top.ad, Top.ex))
            => pc' = "ret" /\ qret' = "true"
       /\ (pc = "ret" /\ qret = "true") => ret' = "true"
      ]_vars

\* The call returned true for a child of a window that an exception list
\* had exempted.
C10_Witness ==
    /\ ret = "true"
    /\ Len(stack) = 2
    /\ Top.exempt
    /\ Satisfies(snap, Top.ad, Top.ex)

====
